---- MODULE Spec2Model ----
(***************************************************************************)
(* NIM allocation of the PMB admission backend.                            *)
(*                                                                         *)
(* The model covers the committed content of the calon_mahasiswa table,    *)
(* the approve handler (main.py approve_mahasiswa, mirrored line for line  *)
(* by cli_register.py approve) and the register handler.  Every database   *)
(* round trip of a handler is one atomic step; between two round trips any *)
(* other request may run.  A handler's transaction holds a single UPDATE   *)
(* or INSERT, so flush + commit is one step that either succeeds or raises *)
(* IntegrityError on a UNIQUE violation.                                   *)
(*                                                                         *)
(* Strings the code formats or matches (year, program code, NIM, email)    *)
(* are sequences of one-character strings.                                 *)
(***************************************************************************)
EXTENDS Bags, FiniteSets, Integers, Sequences, TLC

(***************************************************************************)
(* Bounds of the model.                                                    *)
(***************************************************************************)
InitCand == 2        \* rows of calon_mahasiswa present at start
MaxReq == 2          \* approve requests accepted in one run
MaxReg == 1          \* register requests accepted in one run
FirstYear == 2025    \* UTC year at start
MaxYearSteps == 1    \* new-year boundaries crossed in one run
RaceReq == 3         \* approve requests accepted in one run of the race scenario
RegReq == 2          \* register requests accepted in one run of the register scenario
MaxTx == 3           \* caller transactions that call generate_nim in one run

(***************************************************************************)
(* Program constants.                                                      *)
(***************************************************************************)
MaxAttempts == 5
PadWidth == 4

NULL == <<>>
NoTime == 0

\* fewest concurrent requests with which one request can lose every attempt
StressN == MaxAttempts + 1

(***************************************************************************)
(* Program codes of program_studi: run_server.py seeds TIF and SIB,        *)
(* cli_register.py adds SI to the same pmb.db.  The general run works on   *)
(* SI and SIB, the stress scenario on TIF.                                 *)
(***************************************************************************)
TIF == <<"T", "I", "F">>
SI == <<"S", "I">>
SIB == <<"S", "I", "B">>
Kodes == {SI, SIB}

STATUS_OPTIONS == {"pending", "approved", "rejected"}

(***************************************************************************)
(* String formatting and matching.                                         *)
(***************************************************************************)
DigitChar(d) == CASE d = 0 -> "0" [] d = 1 -> "1" [] d = 2 -> "2" [] d = 3 -> "3"
                  [] d = 4 -> "4" [] d = 5 -> "5" [] d = 6 -> "6" [] d = 7 -> "7"
                  [] d = 8 -> "8" [] d = 9 -> "9"

RECURSIVE Dec(_)
\* str(n) for n >= 0
Dec(n) == IF n < 10 THEN <<DigitChar(n)>> ELSE Dec(n \div 10) \o <<DigitChar(n % 10)>>

RECURSIVE ZeroPad(_, _)
\* left-pad with "0" up to width w; longer strings are kept whole
ZeroPad(s, w) == IF Len(s) >= w THEN s ELSE ZeroPad(<<"0">> \o s, w)

\* FormatSeq that keeps the last PadWidth digits only
FormatSeq_Wrapping(seq) == ZeroPad(Dec(seq % (10 ^ PadWidth)), PadWidth)

\* f"{seq:04d}"
FormatSeq(seq) == ZeroPad(Dec(seq), PadWidth)

\* f"{year}{kode}"
Prefix(y, kode) == Dec(y) \o kode

\* f"{prefix}{seq:04d}"
NimCandidate(prefix, seq) == prefix \o FormatSeq(seq)

\* nim LIKE 'prefix%' (NULL never matches; the codes hold no wildcard characters)
Like(nim, prefix) ==
    /\ nim # NULL
    /\ Len(prefix) <= Len(nim)
    /\ SubSeq(nim, 1, Len(prefix)) = prefix

LowerChar(c) == CASE c = "A" -> "a" [] OTHER -> c

\* str.lower() / func.lower()
Lower(s) == [i \in 1..Len(s) |-> LowerChar(s[i])]

Email(c) == <<c, "@", "x", ".", "i", "d">>
Emails == {Email("a"), Email("A")}

(***************************************************************************)
(* State.                                                                  *)
(***************************************************************************)
VARIABLES
    cand,       \* calon_mahasiswa: row id -> committed row
    year,       \* datetime.now(timezone.utc).year
    reqs,       \* bag of approve requests between two database round trips
    done,       \* outcomes approve requests have returned
    budget,     \* approve requests the run still accepts
    regs,       \* bag of register requests between check and commit
    reg_done,   \* outcomes register requests have returned
    reg_budget, \* register requests the run still accepts
    counters,   \* nim_counters: committed rows (year, kode_prodi, last_seq)
    backend,    \* dialect of DATABASE_URL
    txs         \* caller transactions that use generate_nim

vars == <<cand, year, reqs, done, budget, regs, reg_done, reg_budget, counters, backend, txs>>

Ids == 1..Len(cand)

\* ids a request may name: every row and one id that has no row
ReqIds == 1..(InitCand + MaxReg + 1)

Row(kode, email, status) ==
    [kode |-> kode, email |-> email, status |-> status, nim |-> NULL, approved_at |-> NoTime]

Outcome(id, kind, nim) == [id |-> id, kind |-> kind, nim |-> nim]

Put(bag, r) == bag (+) SetToBag({r})
Take(bag, r) == bag (-) SetToBag({r})

(***************************************************************************)
(* Outcome codes.                                                          *)
(***************************************************************************)
\* "generated": a NIM was committed by this request; "already": the row was approved before
Success == {"generated", "already"}
Failures == {"not_found", "invalid_state", "exhausted", "store"}
Kinds == Success \cup Failures

\* main.py: HTTP status of each way approve_mahasiswa ends
HttpStatus(kind) == CASE kind \in Success -> 200
                      [] kind = "not_found" -> 404
                      [] kind = "invalid_state" -> 409
                      [] kind = "exhausted" -> 409
                      [] kind = "store" -> 500

\* cli_register.py: exit code of each way approve ends
CliCode(kind) == CASE kind \in Success -> 0
                   [] kind = "not_found" -> 11
                   [] kind = "invalid_state" -> 12
                   [] kind = "exhausted" -> 13
                   [] kind = "store" -> 1

(***************************************************************************)
(* approve                                                                 *)
(***************************************************************************)
\* StatusCheck without the idempotent branch: an approved row is refused
StatusCheck_NoIdempotent(status_val) ==
    IF status_val # "pending" THEN "invalid_state" ELSE "allocate"

\* StatusCheck without the pending guard: every row that is not approved is allocated
StatusCheck_NoGuard(status_val) ==
    IF status_val = "approved" THEN "already" ELSE "allocate"

\* what the handler does with a loaded row, by its status
StatusCheck(status_val) ==
    IF status_val = "approved" THEN "already"
    ELSE IF status_val # "pending" THEN "invalid_state"
    ELSE "allocate"

\* the row read by the first query, then the status checks and the prefix
ApproveLoad(id) ==
    /\ budget > 0
    /\ budget' = budget - 1
    /\ IF id \notin Ids
       THEN /\ done' = done \cup {Outcome(id, "not_found", NULL)}
            /\ reqs' = reqs
       ELSE IF StatusCheck(cand[id].status) = "already"
       THEN /\ done' = done \cup {Outcome(id, "already", cand[id].nim)}
            /\ reqs' = reqs
       ELSE IF StatusCheck(cand[id].status) = "invalid_state"
       THEN /\ done' = done \cup {Outcome(id, "invalid_state", NULL)}
            /\ reqs' = reqs
       ELSE /\ reqs' = Put(reqs, [id |-> id, pc |-> "count",
                                  prefix |-> Prefix(year, cand[id].kode),
                                  existing_count |-> 0, attempt |-> 0])
            /\ done' = done
    /\ UNCHANGED <<cand, year, regs, reg_done, reg_budget, counters, backend, txs>>

\* rows whose nim matches the prefix
ExistingCount(prefix) == Cardinality({j \in Ids : Like(cand[j].nim, prefix)})

ApproveCount(r) ==
    /\ r.pc = "count"
    /\ reqs' = Put(Take(reqs, r),
                   [r EXCEPT !.pc = "attempt", !.existing_count = ExistingCount(r.prefix)])
    /\ UNCHANGED <<cand, year, done, budget, regs, reg_done, reg_budget, counters, backend, txs>>

\* UNIQUE(nim): another row already holds the value
NimConflict(id, nim) == \E j \in Ids : j # id /\ cand[j].nim = nim

\* ApprovedRow that leaves approved_at out of the UPDATE
ApprovedRow_NoTime(row, nim, now) ==
    [row EXCEPT !.nim = nim, !.status = "approved"]

\* the three attributes the loop sets on the row before it commits
ApprovedRow(row, nim, now) ==
    [row EXCEPT !.nim = nim, !.status = "approved", !.approved_at = now]

\* RolledBack that keeps the flushed status of the failed UPDATE
RolledBack_Partial(rows, id) == [rows EXCEPT ![id].status = "approved"]

\* db.rollback(): the table as it was committed
RolledBack(rows, id) == rows

\* AttemptSeq that tries the same number on every pass
AttemptSeq_Same(existing_count, attempt) == existing_count + 1

\* seq = existing_count + 1 + attempt
AttemptSeq(existing_count, attempt) == existing_count + 1 + attempt

\* one pass of the retry loop: UPDATE + commit, or IntegrityError + rollback
ApproveAttempt(r) ==
    /\ r.pc = "attempt"
    /\ LET seq == AttemptSeq(r.existing_count, r.attempt)
           nim_candidate == NimCandidate(r.prefix, seq)
       IN IF ~NimConflict(r.id, nim_candidate)
          THEN /\ cand' = [cand EXCEPT ![r.id] = ApprovedRow(@, nim_candidate, year)]
               /\ reqs' = Put(Take(reqs, r), [r EXCEPT !.pc = "refresh"])
               /\ done' = done
          ELSE IF r.attempt + 1 < MaxAttempts
          THEN /\ reqs' = Put(Take(reqs, r), [r EXCEPT !.attempt = r.attempt + 1])
               /\ cand' = RolledBack(cand, r.id)
               /\ done' = done
          ELSE /\ reqs' = Take(reqs, r)
               /\ done' = done \cup {Outcome(r.id, "exhausted", NULL)}
               /\ cand' = RolledBack(cand, r.id)
    /\ UNCHANGED <<year, budget, regs, reg_done, reg_budget, counters, backend, txs>>

\* db.refresh(calon); return {"nim": calon.nim}
ApproveRefresh(r) ==
    /\ r.pc = "refresh"
    /\ reqs' = Take(reqs, r)
    /\ done' = done \cup {Outcome(r.id, "generated", cand[r.id].nim)}
    /\ UNCHANGED <<cand, year, budget, regs, reg_done, reg_budget, counters, backend, txs>>

\* a query or commit raises a database error other than IntegrityError:
\* nothing catches it, the session is closed and its transaction dropped
StoreFail(r) ==
    /\ reqs' = Take(reqs, r)
    /\ done' = done \cup {Outcome(r.id, "store", NULL)}
    /\ UNCHANGED <<cand, year, budget, regs, reg_done, reg_budget, counters, backend, txs>>

(***************************************************************************)
(* register                                                                *)
(***************************************************************************)
\* program lookup and case-insensitive email check
RegisterCheck(kode, email) ==
    /\ reg_budget > 0
    /\ reg_budget' = reg_budget - 1
    /\ IF kode \notin Kodes
       THEN /\ reg_done' = reg_done \cup {[email |-> email, kind |-> "no_program"]}
            /\ regs' = regs
       ELSE IF \E j \in Ids : Lower(cand[j].email) = Lower(email)
       THEN /\ reg_done' = reg_done \cup {[email |-> email, kind |-> "duplicate"]}
            /\ regs' = regs
       ELSE /\ regs' = Put(regs, [kode |-> kode, email |-> email])
            /\ reg_done' = reg_done
    /\ UNCHANGED <<cand, year, reqs, done, budget, counters, backend, txs>>

\* INSERT + commit under UNIQUE(email)
RegisterCommit(g) ==
    /\ regs' = Take(regs, g)
    /\ IF \E j \in Ids : cand[j].email = g.email
       THEN /\ reg_done' = reg_done \cup {[email |-> g.email, kind |-> "integrity"]}
            /\ cand' = cand
       ELSE /\ cand' = Append(cand, Row(g.kode, g.email, "pending"))
            /\ reg_done' = reg_done \cup {[email |-> g.email, kind |-> "created"]}
    /\ UNCHANGED <<year, reqs, done, budget, reg_budget, counters, backend, txs>>

(***************************************************************************)
(* generate_nim (utils.py) and the transaction of its caller.              *)
(*                                                                         *)
(* The function works in the caller's session: a SELECT ... FOR UPDATE,    *)
(* then an INSERT or UPDATE that is flushed but not committed.  The caller *)
(* commits or rolls back.  Other sessions read committed rows only.        *)
(* On postgresql FOR UPDATE locks the row read until the transaction ends. *)
(* The sqlite dialect emits no FOR UPDATE; a flushed write holds the       *)
(* database write lock until the transaction ends.                         *)
(***************************************************************************)
MinYear == 2000
MaxYear == 9999

Backends == {"sqlite", "postgresql"}

Txs == 1..MaxTx

\* args: the arguments of the call; tahun, kode: the key after the checks;
\* row, seen: the counter row read and its last_seq; seq, nim: the result
IdleTx == [pc |-> "idle", args |-> <<>>, tahun |-> 0, kode |-> <<>>, row |-> 0, seen |-> 0,
           seq |-> 0, nim |-> NULL]

UpperChar(c) == CASE c = "t" -> "T" [] c = "i" -> "I" [] c = "f" -> "F" [] OTHER -> c

\* str.upper()
Upper(s) == [i \in 1..Len(s) |-> UpperChar(s[i])]

RECURSIVE Strip(_)
\* str.strip()
Strip(s) == IF s = <<>> THEN s
            ELSE IF Head(s) = " " THEN Strip(Tail(s))
            ELSE IF s[Len(s)] = " " THEN Strip(SubSeq(s, 1, Len(s) - 1))
            ELSE s

\* Normalize that keeps the case of the code
Normalize_NoUpper(kode_prodi) == Strip(kode_prodi)

\* kode_prodi.strip().upper()
Normalize(kode_prodi) == Upper(Strip(kode_prodi))

\* the two ValueError checks
ValidInput(tahun, kode) == kode # <<>> /\ ~(tahun < MinYear \/ tahun > MaxYear)

\* arguments callers pass
GenYears == {MinYear - 1, FirstYear, MaxYear + 1}
GenCodes == {TIF, <<" ", "t", "i", "f">>, SI, <<" ">>}

\* rows of nim_counters the filter matches
CounterRows(tahun, kode) ==
    {k \in 1..Len(counters) : counters[k].year = tahun /\ counters[k].kode_prodi = kode}

Open(t) == txs[t].pc \in {"selected", "flushed"}

\* postgresql: another open transaction has locked row k with FOR UPDATE
RowLocked(t, k) ==
    /\ backend = "postgresql"
    /\ \E u \in Txs : u # t /\ Open(u) /\ txs[u].row = k

\* another transaction holds a flushed write that this write has to wait for:
\* any write on sqlite, an insert of the same key on postgresql
WriteBlocked(t) ==
    \E u \in Txs :
        /\ u # t
        /\ txs[u].pc = "flushed"
        /\ \/ backend = "sqlite"
           \/ /\ txs[u].row = 0 /\ txs[t].row = 0
              /\ txs[u].tahun = txs[t].tahun /\ txs[u].kode = txs[t].kode

\* f"{tahun}{kode}{seq:04d}"
FormatNim(tahun, kode, seq) == Dec(tahun) \o kode \o FormatSeq(seq)

\* argument checks, then q.one_or_none()
GenSelect(t, tahun, kode_prodi) ==
    /\ txs[t].pc = "idle"
    /\ LET kode == Normalize(kode_prodi)
       IN IF ~ValidInput(tahun, kode)
          THEN txs' = [txs EXCEPT ![t] = [@ EXCEPT !.pc = "value_error",
                           !.args = <<tahun, kode_prodi>>]]
          ELSE LET found == CounterRows(tahun, kode)
               IN IF found = {}
                  THEN txs' = [txs EXCEPT ![t] = [@ EXCEPT !.pc = "selected",
                                   !.args = <<tahun, kode_prodi>>,
                                   !.tahun = tahun, !.kode = kode]]
                  ELSE \E k \in found :
                          /\ ~RowLocked(t, k)
                          /\ txs' = [txs EXCEPT ![t] = [@ EXCEPT !.pc = "selected",
                                        !.args = <<tahun, kode_prodi>>,
                                        !.tahun = tahun, !.kode = kode,
                                        !.row = k, !.seen = counters[k].last_seq]]
    /\ UNCHANGED <<cand, year, reqs, done, budget, regs, reg_done, reg_budget,
                   counters, backend>>

\* SeenPlusOne that hands the value read out again
SeenPlusOne_Same(seen) == seen

\* int(counter.last_seq) + 1
SeenPlusOne(seen) == seen + 1

\* Flushed that makes the UPDATE visible to every session at once
Flushed_Visible(rows, row, seq) ==
    IF row = 0 THEN rows ELSE [rows EXCEPT ![row].last_seq = seq]

\* db.flush() sends the write inside the caller's transaction, no commit:
\* the committed table stays as it is
Flushed(rows, row, seq) == rows

\* db.add(counter); db.flush(); the NIM is returned with the write uncommitted
GenFlush(t) ==
    /\ txs[t].pc = "selected"
    /\ ~WriteBlocked(t)
    /\ IF txs[t].row = 0
       THEN IF CounterRows(txs[t].tahun, txs[t].kode) # {}
            THEN txs' = [txs EXCEPT ![t] = [@ EXCEPT !.pc = "integrity_error"]]
            ELSE txs' = [txs EXCEPT ![t] = [@ EXCEPT !.pc = "flushed", !.seq = 1,
                             !.nim = FormatNim(txs[t].tahun, txs[t].kode, 1)]]
       ELSE LET seq == SeenPlusOne(txs[t].seen)
            IN txs' = [txs EXCEPT ![t] = [@ EXCEPT !.pc = "flushed", !.seq = seq,
                           !.nim = FormatNim(txs[t].tahun, txs[t].kode, seq)]]
    /\ counters' = Flushed(counters, txs[t].row, txs'[t].seq)
    /\ UNCHANGED <<cand, year, reqs, done, budget, regs, reg_done, reg_budget, backend>>

\* the caller's db.commit(): the flushed row becomes visible
TxCommit(t) ==
    /\ txs[t].pc = "flushed"
    /\ counters' = IF txs[t].row = 0
                   THEN Append(counters, [year |-> txs[t].tahun, kode_prodi |-> txs[t].kode,
                                          last_seq |-> txs[t].seq])
                   ELSE [counters EXCEPT ![txs[t].row].last_seq = txs[t].seq]
    /\ txs' = [txs EXCEPT ![t] = [@ EXCEPT !.pc = "committed"]]
    /\ UNCHANGED <<cand, year, reqs, done, budget, regs, reg_done, reg_budget, backend>>

\* the caller's db.rollback() or a dropped session: error, timeout or cancel
TxRollback(t) ==
    /\ Open(t)
    /\ txs' = [txs EXCEPT ![t] = [@ EXCEPT !.pc = "rolled_back"]]
    /\ UNCHANGED <<cand, year, reqs, done, budget, regs, reg_done, reg_budget,
                   counters, backend>>

(***************************************************************************)
(* the clock                                                               *)
(***************************************************************************)
NewYear ==
    /\ year < FirstYear + MaxYearSteps
    /\ year' = year + 1
    /\ UNCHANGED <<cand, reqs, done, budget, regs, reg_done, reg_budget, counters, backend, txs>>

(***************************************************************************)
(* Specification                                                           *)
(***************************************************************************)
\* addresses of the rows present at start, none of them in Emails
InitEmail(i) == Email(CASE i = 1 -> "p" [] i = 2 -> "q" [] i = 3 -> "r" [] i = 4 -> "s"
                        [] i = 5 -> "t" [] i = 6 -> "u" [] OTHER -> "v")

InitRows == {t \in [1..InitCand -> Kodes \X {"pending", "rejected"}] : TRUE}

\* no request in flight, no counter row
Idle(nreq, nreg) ==
    /\ year = FirstYear
    /\ reqs = EmptyBag
    /\ done = {}
    /\ budget = nreq
    /\ regs = EmptyBag
    /\ reg_done = {}
    /\ reg_budget = nreg
    /\ counters = << >>
    /\ backend = "sqlite"
    /\ txs = [t \in Txs |-> IdleTx]

\* registered candidates, none approved yet; a row may have been rejected by hand
InitTable ==
    \E t \in InitRows :
        cand = [i \in 1..InitCand |-> Row(t[i][1], InitEmail(i), t[i][2])]

Init == InitTable /\ Idle(MaxReq, MaxReg)

Next ==
    \/ \E id \in ReqIds : ApproveLoad(id)
    \/ \E r \in BagToSet(reqs) : ApproveCount(r)
    \/ \E r \in BagToSet(reqs) : ApproveAttempt(r)
    \/ \E r \in BagToSet(reqs) : ApproveRefresh(r)
    \/ \E r \in BagToSet(reqs) : StoreFail(r)
    \/ \E k \in Kodes \cup {<<"X">>}, e \in Emails : RegisterCheck(k, e)
    \/ \E g \in BagToSet(regs) : RegisterCommit(g)
    \/ NewYear

Spec == Init /\ [][Next]_vars

TypeOK ==
    /\ \A i \in Ids : cand[i].status \in STATUS_OPTIONS
    /\ \A d \in done : d.kind \in Kinds
    /\ budget >= 0 /\ reg_budget >= 0
    /\ backend \in Backends
    /\ \A k \in 1..Len(counters) : counters[k].last_seq \in Nat
    /\ \A t \in Txs : txs[t].pc \in {"idle", "value_error", "selected", "integrity_error",
                                      "flushed", "committed", "rolled_back"}

(***************************************************************************)
(* Stress scenario: StressN pending candidates of one program, no NIM      *)
(* issued, StressN approve requests and nothing else running.              *)
(***************************************************************************)
InitStress ==
    /\ cand = [i \in 1..StressN |-> Row(TIF, InitEmail(i), "pending")]
    /\ Idle(StressN, 0)

\* the k-th request to arrive names candidate k
StressTarget == StressN - budget + 1

\* a request that has committed reads its row back before any other request moves:
\* no other request of the scenario touches that row, so the order is immaterial
NoRefreshPending == \A r \in BagToSet(reqs) : r.pc # "refresh"

NextApprove ==
    \/ NoRefreshPending /\ ApproveLoad(StressTarget)
    \/ NoRefreshPending /\ \E r \in BagToSet(reqs) : ApproveCount(r)
    \/ NoRefreshPending /\ \E r \in BagToSet(reqs) : ApproveAttempt(r)
    \/ \E r \in BagToSet(reqs) : ApproveRefresh(r)

SpecStress == InitStress /\ [][NextApprove]_vars

(***************************************************************************)
(* Race scenario: the general run with one more approve request.           *)
(***************************************************************************)
InitRace == InitTable /\ Idle(RaceReq, MaxReg)

SpecRace == InitRace /\ [][Next]_vars

(***************************************************************************)
(* Register scenario: RegReq register requests, HTTP or CLI, next to one   *)
(* approve request.                                                        *)
(***************************************************************************)
InitRegister == InitTable /\ Idle(1, RegReq)

SpecRegister == InitRegister /\ [][Next]_vars

(***************************************************************************)
(* Sequential scenario: an approve request arrives only when no other one  *)
(* is running.                                                             *)
(***************************************************************************)
NextSequential == Next /\ BagCardinality(reqs') <= 1

SpecSequential == Init /\ [][NextSequential]_vars

(***************************************************************************)
(* Allocation scenario: callers of generate_nim on either backend, the     *)
(* counter of (FirstYear, TIF) absent or close to the four-digit limit.    *)
(***************************************************************************)
\* two below the last sequence number that fits the pad width
InitLastSeq == 10 ^ PadWidth - 2

InitAlloc ==
    /\ cand = << >>
    /\ year = FirstYear
    /\ reqs = EmptyBag
    /\ done = {}
    /\ budget = 0
    /\ regs = EmptyBag
    /\ reg_done = {}
    /\ reg_budget = 0
    /\ counters \in {<< >>, <<[year |-> FirstYear, kode_prodi |-> TIF, last_seq |-> InitLastSeq]>>}
    /\ backend \in Backends
    /\ txs = [t \in Txs |-> IdleTx]

NextAlloc ==
    \/ \E t \in Txs, tahun \in GenYears, kode_prodi \in GenCodes : GenSelect(t, tahun, kode_prodi)
    \/ \E t \in Txs : GenFlush(t)
    \/ \E t \in Txs : TxCommit(t)
    \/ \E t \in Txs : TxRollback(t)

SpecAlloc == InitAlloc /\ [][NextAlloc]_vars

(***************************************************************************)
(* Properties                                                              *)
(***************************************************************************)
Years == FirstYear..(FirstYear + MaxYearSteps)

Approved(i) == cand[i].status = "approved"

\* C1: no two distinct candidates hold the same NIM in committed state, and
\* no two successful approvals of distinct candidates return equal NIMs.
C1_UniqueNim ==
    /\ \A i, j \in Ids : i # j /\ cand[i].nim # NULL => cand[i].nim # cand[j].nim
    /\ \A d, e \in done :
          d.kind \in Success /\ e.kind \in Success /\ d.id # e.id => d.nim # e.nim

\* C2: when StressN approvals of StressN distinct pending candidates of one
\* (year, program code) run concurrently from a state with no NIM issued,
\* none ends with the "could not generate unique NIM" failure, and once all
\* have returned the NIMs issued carry exactly the sequence numbers 1..StressN.
C2_AllSucceed ==
    /\ \A d \in done : d.kind # "exhausted"
    /\ (budget = 0 /\ reqs = EmptyBag) =>
          {cand[i].nim : i \in Ids} =
              {NimCandidate(Prefix(FirstYear, TIF), k) : k \in 1..StressN}

\* C3: once a candidate is approved, no step of any approve request changes
\* its NIM.
C3_ApprovedOnce ==
    [][\A i \in Ids : Approved(i) => cand'[i].nim = cand[i].nim]_vars

\* C4: a NIM that a successful approve has returned for a candidate is never
\* held by a different candidate afterwards.
C4_NeverReassigned ==
    \A d \in done :
        d.kind \in Success /\ d.nim # NULL =>
            \A j \in Ids : j # d.id => cand[j].nim # d.nim

\* C5: approving an already approved candidate returns its stored NIM as a
\* success and changes no candidate row and no counter.
C5_Idempotent ==
    [][\A id \in Ids :
          Approved(id) /\ ApproveLoad(id) =>
              /\ done' = done \cup {Outcome(id, "already", cand[id].nim)}
              /\ cand[id].nim # NULL
              /\ HttpStatus("already") = 200 /\ CliCode("already") = 0
              /\ UNCHANGED <<cand, counters, reqs>>]_vars

C5_Witness == \E d \in done : d.kind = "already" /\ d.nim = cand[d.id].nim

\* C6: in every committed state each candidate has nim set iff status is
\* approved iff approved_at is set; a newly inserted row is pending with no
\* NIM, and a commit that changes a pending row sets all three fields.
C6_RowConsistent ==
    \A i \in Ids :
        /\ (cand[i].nim # NULL) <=> Approved(i)
        /\ Approved(i) <=> (cand[i].approved_at # NoTime)

C6_CommitWhole ==
    [][/\ Len(cand') >= Len(cand)
       /\ \A i \in 1..Len(cand') :
             IF i \in Ids
             THEN (cand[i].status = "pending" /\ cand'[i] # cand[i]) =>
                      /\ cand'[i].nim # NULL
                      /\ cand'[i].status = "approved"
                      /\ cand'[i].approved_at # NoTime
             ELSE /\ cand'[i].status = "pending"
                  /\ cand'[i].nim = NULL
                  /\ cand'[i].approved_at = NoTime]_vars

C6_NimIffApproved == []C6_RowConsistent /\ C6_CommitWhole

C6_Witness ==
    /\ \E i \in Ids : Approved(i) /\ cand[i].nim # NULL /\ cand[i].approved_at # NoTime
    /\ \E r \in BagToSet(reqs) : r.attempt > 0 /\ cand[r.id].status = "pending"
    /\ Len(cand) > InitCand

\* C7: approving a candidate whose status is neither pending nor approved
\* fails with the invalid-state error (HTTP 409, CLI 12) and changes nothing
\* that is stored.
C7_InvalidState ==
    [][\A id \in Ids :
          cand[id].status \notin {"pending", "approved"} /\ ApproveLoad(id) =>
              /\ done' = done \cup {Outcome(id, "invalid_state", NULL)}
              /\ HttpStatus("invalid_state") = 409 /\ CliCode("invalid_state") = 12
              /\ UNCHANGED <<cand, counters, reqs>>]_vars

C7_Witness ==
    \E d \in done :
        /\ d.kind = "invalid_state"
        /\ cand[d.id].status = "rejected"
        /\ cand[d.id].nim = NULL

\* C8: a request that lost every attempt to a uniqueness conflict has
\* returned the allocation-exhausted failure, and its candidate is committed
\* as pending with no NIM and no approval time.
C8_StillPending ==
    \A d \in done :
        d.kind = "exhausted" =>
            /\ cand[d.id].status = "pending"
            /\ cand[d.id].nim = NULL
            /\ cand[d.id].approved_at = NoTime

\* an attempt that meets a conflict commits nothing, and the last one reports the failure
C8_FailedAttempt ==
    [][\A r \in BagToSet(reqs) :
          (/\ r.pc = "attempt"
           /\ NimConflict(r.id, NimCandidate(r.prefix, r.existing_count + 1 + r.attempt))
           /\ ApproveAttempt(r)) =>
              /\ UNCHANGED <<cand, counters, backend, txs>>
              /\ IF r.attempt = MaxAttempts - 1
                 THEN done' = done \cup {Outcome(r.id, "exhausted", NULL)}
                 ELSE done' = done]_vars

C8_NoPartialState == []C8_StillPending /\ C8_FailedAttempt

C8_Witness ==
    \E d \in done :
        /\ d.kind = "exhausted"
        /\ cand[d.id].status = "pending"
        /\ \A k \in 1..MaxAttempts :
              \E j \in Ids : cand[j].nim = NimCandidate(Prefix(FirstYear, TIF), k)

\* C9: the code an approve request reports for a failure differs from the
\* code of every other failure kind and from the code of success.
C9_CodesDistinct ==
    \A d \in done :
        d.kind \in Failures =>
            \A k \in Kinds \ {d.kind} :
                /\ HttpStatus(k) # HttpStatus(d.kind)
                /\ CliCode(k) # CliCode(d.kind)

\* C10: the first NIM committed for a program code carries sequence number 1,
\* whatever has been issued for other program codes.
HeldFor(kode) == {j \in Ids : cand[j].kode = kode /\ cand[j].nim # NULL}

C10_KeysIndependent ==
    [][\A i \in Ids :
          HeldFor(cand[i].kode) = {} /\ cand'[i].nim # NULL =>
              \E y \in Years : cand'[i].nim = NimCandidate(Prefix(y, cand[i].kode), 1)]_vars

\* sequence numbers the scenarios can reach
SeqRange == 1..(InitCand + MaxReg + MaxAttempts + 1)

\* sequence numbers of the NIMs that rows of program code kode hold for year y
HeldSeqs(rows, y, kode) ==
    {k \in SeqRange : \E j \in DOMAIN rows :
        rows[j].kode = kode /\ rows[j].nim = NimCandidate(Prefix(y, kode), k)}

\* C11: for a fixed (year, program code), every newly committed NIM carries a
\* sequence number greater than that of every NIM committed for the key
\* before it, under any interleaving of approve requests.
C11_IncreasingInCommitOrder ==
    [][\A i \in Ids, y \in Years, k \in SeqRange :
          /\ cand'[i].nim # cand[i].nim
          /\ cand'[i].nim = NimCandidate(Prefix(y, cand[i].kode), k)
          => \A m \in HeldSeqs(cand, y, cand[i].kode) : m < k]_vars

\* no approve request is running and none has ended in a failure after its load
NoApprovalAborted ==
    /\ reqs = EmptyBag
    /\ \A d \in done : d.kind \notin {"exhausted", "store"}

\* C12: when no approval aborts, after any interleaving of successful approve
\* requests the sequence numbers held by the candidates of one (year, program
\* code) are exactly 1..m for some m >= 0.
C12_NoGaps ==
    NoApprovalAborted =>
        \A y \in Years, kode \in {TIF, SI, SIB} :
            HeldSeqs(cand, y, kode) = 1..Cardinality(HeldSeqs(cand, y, kode))

\* generate_nim has returned a NIM to the caller of transaction t
Returned(t) == txs[t].pc \in {"flushed", "committed"}

SameKey(t, u) == txs[t].tahun = txs[u].tahun /\ txs[t].kode = txs[u].kode

\* C13: two generate_nim calls for the same (year, program code) whose
\* counter row already exists never read the same last_seq and never return
\* the same sequence number when both callers commit.
C13_Serialized ==
    \A t, u \in Txs :
        /\ t # u /\ SameKey(t, u)
        /\ txs[t].row # 0 /\ txs[u].row # 0
        /\ txs[t].pc = "committed" /\ txs[u].pc = "committed"
        => /\ txs[t].seen # txs[u].seen
           /\ txs[t].seq # txs[u].seq

\* C14: the first allocation for a new key never ends in an error, also when
\* two callers make it concurrently: a caller that found no counter row gets
\* a sequence number, never an IntegrityError.
C14_FirstAllocationNeverFails ==
    \A t \in Txs : txs[t].row = 0 => txs[t].pc # "integrity_error"

\* the committed last_seq of the key, 0 when the key has no row
LastSeq(tahun, kode) ==
    IF CounterRows(tahun, kode) = {} THEN 0
    ELSE counters[CHOOSE k \in CounterRows(tahun, kode) : TRUE].last_seq

\* no commit for the key has happened since transaction t read the counter
Sequential(t) == txs[t].seen = LastSeq(txs[t].tahun, txs[t].kode)

\* C15: the NIM is the 4-digit year, the program code and the sequence number
\* zero-padded to 4 digits: the first allocation for (2025, "TIF") yields
\* "2025TIF0001", the next "2025TIF0002", and an allocation made when k-1
\* allocations are committed for the key, with no commit in between, yields
\* sequence k.
C15_Format ==
    /\ \A t \in Txs :
          Returned(t) /\ txs[t].tahun = 2025 /\ txs[t].kode = <<"T", "I", "F">> =>
              /\ txs[t].seq = 1 =>
                    txs[t].nim = <<"2", "0", "2", "5", "T", "I", "F", "0", "0", "0", "1">>
              /\ txs[t].seq = 2 =>
                    txs[t].nim = <<"2", "0", "2", "5", "T", "I", "F", "0", "0", "0", "2">>
    /\ \A t \in Txs :
          txs[t].pc = "flushed" /\ Sequential(t) =>
              /\ txs[t].seq = LastSeq(txs[t].tahun, txs[t].kode) + 1
              /\ txs[t].nim = Dec(txs[t].tahun) \o txs[t].kode \o FormatSeq(txs[t].seq)
              /\ Len(txs[t].nim) >= 4 + Len(txs[t].kode) + PadWidth

C15_Witness ==
    \E t, u \in Txs :
        /\ txs[u].pc = "committed" /\ txs[u].row = 0 /\ txs[u].seq = 1
        /\ txs[t].pc = "committed" /\ txs[t].seen = 1 /\ txs[t].seq = 2
        /\ txs[t].nim = FormatNim(FirstYear, TIF, 2)

\* C16: there is at most one counter row per (year, program code), no step
\* lowers a last_seq, and the commit of a successful generate_nim call raises
\* the last_seq of its own key by exactly 1 and leaves every other counter
\* row unchanged; steps that are no such commit change no counter.
C16_CounterDiscipline ==
    [][/\ \A k, l \in 1..Len(counters') :
             counters'[k].year = counters'[l].year
                 /\ counters'[k].kode_prodi = counters'[l].kode_prodi => k = l
       /\ \A k \in 1..Len(counters) :
             Len(counters') >= k /\ counters'[k].last_seq >= counters[k].last_seq
       /\ \A t \in Txs :
             txs[t].pc = "flushed" /\ txs'[t].pc = "committed" =>
                 /\ LastSeq(txs[t].tahun, txs[t].kode)' = LastSeq(txs[t].tahun, txs[t].kode) + 1
                 /\ \A k \in 1..Len(counters) :
                       k # txs[t].row => counters'[k] = counters[k]
       /\ (\A t \in Txs : ~(txs[t].pc = "flushed" /\ txs'[t].pc = "committed"))
              => counters' = counters]_vars

\* steps an approve request has left at most: count, MaxAttempts passes, refresh
StepsLeft(r) ==
    CASE r.pc = "count" -> MaxAttempts + 2
      [] r.pc = "attempt" -> MaxAttempts - r.attempt + 1
      [] r.pc = "refresh" -> 1

RECURSIVE SumStepsLeft(_, _)
SumStepsLeft(B, S) ==
    IF S = {} THEN 0
    ELSE LET r == CHOOSE x \in S : TRUE
         IN CopiesIn(r, B) * StepsLeft(r) + SumStepsLeft(B, S \ {r})

\* steps all approve requests, running or still to arrive, have left at most
ApproveRank(B, n) == n * (MaxAttempts + 3) + SumStepsLeft(B, BagToSet(B))

\* the NIM pass number r.attempt of request r tries
TriedNim(r) == NimCandidate(r.prefix, r.existing_count + 1 + r.attempt)

\* C17: one approve request makes at most MaxAttempts commit attempts and
\* terminates with a committed NIM or a failure: its pass number is always in
\* 0..MaxAttempts-1, every step of a request lowers the number of steps left,
\* pass i writes the NIM of sequence number existing_count + 1 + i, a pass is
\* repeated only after a conflict on that NIM, and a conflict on the last
\* pass ends the request with the "exhausted" failure.
C17_BoundedRetry ==
    [][/\ \A r \in BagToSet(reqs) :
             r.attempt \in 0..(MaxAttempts - 1) /\ r.pc \in {"count", "attempt", "refresh"}
       /\ \/ ApproveRank(reqs', budget') < ApproveRank(reqs, budget)
          \/ reqs' = reqs /\ budget' = budget /\ done' = done
       /\ \A i \in Ids :
             cand'[i].nim # cand[i].nim =>
                 \E r \in BagToSet(reqs) :
                     /\ r.id = i /\ r.pc = "attempt"
                     /\ cand'[i].nim = TriedNim(r)
                     /\ ~NimConflict(i, TriedNim(r))
       /\ \A r \in BagToSet(reqs) :
             ApproveAttempt(r) =>
                 IF ~NimConflict(r.id, TriedNim(r))
                 THEN /\ cand'[r.id].nim = TriedNim(r)
                      /\ [r EXCEPT !.pc = "refresh"] \in BagToSet(reqs')
                 ELSE /\ cand' = cand
                      /\ IF r.attempt = MaxAttempts - 1
                         THEN Outcome(r.id, "exhausted", NULL) \in done'
                         ELSE [r EXCEPT !.attempt = r.attempt + 1] \in BagToSet(reqs')]_vars

\* a request has made its last pass and failed, another committed on a retry
C17_Witness ==
    /\ \E d \in done : d.kind = "exhausted"
    /\ \E d \in done : d.kind = "generated" /\ d.nim = NimCandidate(Prefix(FirstYear, TIF), MaxAttempts)

\* C18: generate_nim never commits: the step that flushes the increment and
\* the caller's rollback leave the committed counter rows as they are, only
\* the caller's commit changes them, and a caller that reads the counter sees
\* the committed last_seq, never the flushed increment of an open transaction.
C18_NoCommitInside ==
    [][\A t \in Txs :
          /\ txs[t].pc = "selected" /\ txs'[t].pc # "selected" => counters' = counters
          /\ txs[t].pc # "rolled_back" /\ txs'[t].pc = "rolled_back" => counters' = counters
          /\ counters' # counters =>
                \E u \in Txs : txs[u].pc = "flushed" /\ txs'[u].pc = "committed"
          /\ txs[t].pc = "idle" /\ txs'[t].pc = "selected" =>
                txs'[t].seen = LastSeq(txs'[t].tahun, txs'[t].kode)]_vars

\* a caller rolled back after its increment, the counter is as it was before
\* the call, and another caller has read the old value
C18_Witness ==
    \E t, u \in Txs :
        /\ txs[t].pc = "rolled_back" /\ txs[t].row # 0 /\ txs[t].seq = txs[t].seen + 1
        /\ counters[txs[t].row].last_seq = txs[t].seen
        /\ u # t /\ txs[u].pc = "selected" /\ txs[u].row = txs[t].row
        /\ txs[u].seen = txs[t].seen

\* the code is empty once surrounding blanks are removed
Blank(c) == \A i \in 1..Len(c) : c[i] = " "

\* the argument checks and the normalisation of the code, call by call
ArgsChecked ==
    /\ \A t \in Txs :
          txs[t].pc # "idle" =>
              IF txs[t].args[1] < 2000 \/ txs[t].args[1] > 9999 \/ Blank(txs[t].args[2])
              THEN /\ txs[t].pc = "value_error"
                   /\ txs[t].row = 0 /\ txs[t].seen = 0
                   /\ txs[t].seq = 0 /\ txs[t].nim = NULL
              ELSE /\ txs[t].pc # "value_error"
                   /\ txs[t].tahun = txs[t].args[1]
                   /\ txs[t].args[2] \in {<<"T", "I", "F">>, <<" ", "t", "i", "f">>}
                          => txs[t].kode = <<"T", "I", "F">>
                   /\ txs[t].args[2] = <<"S", "I">> => txs[t].kode = <<"S", "I">>
    /\ \A k \in 1..Len(counters) : counters[k].kode_prodi \in {<<"T", "I", "F">>, <<"S", "I">>}
    /\ \A t, u \in Txs :
          /\ txs[t].pc = "committed" /\ txs[u].pc = "committed"
          /\ txs[t].args = <<FirstYear, <<"T", "I", "F">> >>
          /\ txs[u].args = <<FirstYear, <<" ", "t", "i", "f">> >>
          => /\ txs[t].row = txs[u].row \/ txs[t].row = 0 \/ txs[u].row = 0
             /\ Cardinality(CounterRows(FirstYear, <<"T", "I", "F">>)) = 1

\* C19: a call with a year outside 2000..9999 or a code that is blank ends in
\* a ValueError with no counter read or written; a call with valid arguments
\* uses the trimmed, upper-case code as its key, so " tif" and "TIF" share
\* the counter row of TIF and counter rows never carry another spelling.
C19_Validation ==
    /\ []ArgsChecked
    /\ [][\A t \in Txs :
             txs[t].pc = "idle" /\ txs'[t].pc = "value_error" => counters' = counters]_vars

\* two committed calls that spelled the code differently and took consecutive
\* numbers from one counter, and a call rejected for its blank code
C19_Witness ==
    \E t, u \in Txs :
        /\ txs[t].pc = "committed" /\ txs[t].args[2] = <<"T", "I", "F">>
        /\ txs[u].pc = "committed" /\ txs[u].args[2] = <<" ", "t", "i", "f">>
        /\ txs[u].seq = txs[t].seq + 1
        /\ Len(counters) = 1
        /\ \E v \in Txs : txs[v].pc = "value_error" /\ Blank(txs[v].args[2])

\* C20: a sequence number above 9999 is written with all its digits: the
\* call that reads last_seq = 9999 returns sequence 10000 and a NIM ending in
\* "10000", the next one 10001; the number is never cut or wrapped, and two
\* calls of one key with different sequence numbers return different NIMs.
\* The candidate NIM of the approve loop is formatted the same way.
C20_WiderNumber ==
    /\ \A t \in Txs :
          Returned(t) /\ txs[t].row # 0 =>
              /\ txs[t].seq = txs[t].seen + 1
              /\ txs[t].seq >= 10 ^ PadWidth =>
                    /\ txs[t].nim = Dec(txs[t].tahun) \o txs[t].kode \o Dec(txs[t].seq)
                    /\ Len(txs[t].nim) > 4 + Len(txs[t].kode) + PadWidth
              /\ txs[t].seen = 9999 =>
                    SubSeq(txs[t].nim, Len(txs[t].nim) - 4, Len(txs[t].nim))
                        = <<"1", "0", "0", "0", "0">>
              /\ txs[t].seen = 10000 =>
                    SubSeq(txs[t].nim, Len(txs[t].nim) - 4, Len(txs[t].nim))
                        = <<"1", "0", "0", "0", "1">>
    /\ \A t, u \in Txs :
          Returned(t) /\ Returned(u) /\ SameKey(t, u) /\ txs[t].seq # txs[u].seq
              => txs[t].nim # txs[u].nim
    /\ NimCandidate(<<"2", "0", "2", "5", "T", "I", "F">>, 10000)
           = <<"2", "0", "2", "5", "T", "I", "F", "1", "0", "0", "0", "0">>

\* three calls in a row took 9999, 10000 and 10001
C20_Witness ==
    \E t, u, v \in Txs :
        /\ txs[t].pc = "committed" /\ txs[t].seq = 9999
        /\ txs[u].pc = "committed" /\ txs[u].seq = 10000
        /\ txs[v].pc = "committed" /\ txs[v].seq = 10001
        /\ counters[txs[v].row].last_seq = 10001

\* C21: after any interleaving of register requests no two stored candidates
\* have email addresses that are equal when compared case-insensitively.
C21_EmailUniqueIgnoringCase ==
    \A i, j \in Ids : i # j => Lower(cand[i].email) # Lower(cand[j].email)

\* a register request for an email that is stored ends with the duplicate
\* outcome of the check, never with the IntegrityError of the INSERT
C21_DuplicateOutcome ==
    \A d \in reg_done : d.kind # "integrity"

\* the last_seq the counter design holds for the key after the approvals
\* committed so far: one allocation per candidate of the program approved
\* with a NIM of year y
CounterLastSeq(rows, y, kode) ==
    Cardinality({j \in DOMAIN rows : rows[j].kode = kode /\ Like(rows[j].nim, Dec(y))})

\* C22: in any sequence of non-concurrent approvals of pending candidates
\* that starts with no NIM issued, the NIM the count-based loop commits is
\* the NIM generate_nim returns for the same (year, program code), and the
\* sequence numbers held for a key are as many as the counter's last_seq.
C22_SameAsCounter ==
    [][\A i \in Ids, y \in Years :
          /\ cand[i].nim = NULL /\ cand'[i].nim # NULL
          /\ \E r \in BagToSet(reqs) : r.id = i /\ r.prefix = Prefix(y, cand[i].kode)
          => /\ cand'[i].nim = FormatNim(y, Normalize(cand[i].kode),
                                         SeenPlusOne(CounterLastSeq(cand, y, cand[i].kode)))
             /\ Cardinality(HeldSeqs(cand', y, cand[i].kode))
                    = CounterLastSeq(cand', y, cand[i].kode)]_vars
====
